---- MODULE Spec2Model ----
(***************************************************************************)
(* Model of the GameStream client protocol orchestrator of Moonlight-Switch *)
(* (app/src/libgamestream/client.cpp): gs_init / load_server_status /       *)
(* load_serverinfo, the five-stage gs_pair handshake with its gs_unpair     *)
(* cleanup, gs_applist, gs_app_boxart, gs_start_app and gs_quit_app.        *)
(*                                                                          *)
(* The core is single-threaded and synchronous.  Every http_request is a    *)
(* blocking call; one action of the model is the code that runs from one    *)
(* http_request (inclusive) up to the next one (exclusive).  The server is  *)
(* the environment: every response is drawn from a bounded set.             *)
(***************************************************************************)
EXTENDS Integers, Sequences, FiniteSets, TLC

(***************************************************************************)
(* Result codes (errors.h).  GS_OK must be 0: the code stores the value of  *)
(* a comparison in `ret` and later returns it as a result code.             *)
(***************************************************************************)
GS_OK == 0
GS_FAILED == -1
GS_OUT_OF_MEMORY == -2
GS_INVALID == -3
GS_WRONG_STATE == -4
GS_IO_ERROR == -5
GS_NOT_SUPPORTED_4K == -6
GS_UNSUPPORTED_VERSION == -7
GS_NOT_SUPPORTED_MODE == -8
GS_ERROR == -9

\* The codes of the error taxonomy surfaced to callers.
TaxonomyCodes ==
    {GS_OK, GS_INVALID, GS_IO_ERROR, GS_ERROR, GS_FAILED, GS_WRONG_STATE,
     GS_UNSUPPORTED_VERSION, GS_NOT_SUPPORTED_4K}

\* Supported server generations (client.h).
MIN_SUPPORTED_GFE_VERSION == 3
MAX_SUPPORTED_GFE_VERSION == 7

\* Default ports.
DefaultHttpPort == 47989
DefaultHttpsPort == 47984

\* The value a C++ comparison yields when it is stored in an int.
BoolToInt(b) == IF b THEN 1 ELSE 0

(***************************************************************************)
(* Text.  Numeric texts are sequences of one-character strings so that atoi *)
(* is computed digit by digit.                                              *)
(***************************************************************************)
Digits == {"0", "1", "2", "3", "4", "5", "6", "7", "8", "9"}

DigitVal(c) ==
    CASE c = "0" -> 0 [] c = "1" -> 1 [] c = "2" -> 2 [] c = "3" -> 3
      [] c = "4" -> 4 [] c = "5" -> 5 [] c = "6" -> 6 [] c = "7" -> 7
      [] c = "8" -> 8 [] c = "9" -> 9

RECURSIVE AtoiDigits(_, _, _)
AtoiDigits(s, k, acc) ==
    IF k > Len(s) \/ s[k] \notin Digits
    THEN acc
    ELSE AtoiDigits(s, k + 1, acc * 10 + DigitVal(s[k]))

\* atoi: optional sign, then the longest prefix of digits; 0 when there is none.
Atoi(s) ==
    IF Len(s) > 0 /\ s[1] = "-" THEN 0 - AtoiDigits(s, 2, 0)
    ELSE IF Len(s) > 0 /\ s[1] = "+" THEN AtoiDigits(s, 2, 0)
    ELSE AtoiDigits(s, 1, 0)

(***************************************************************************)
(* XML response reader and HTTP layer (xml.cpp, http.cpp).  A response is   *)
(* [io, status, has, val]: io is FALSE for a transport failure, status is   *)
(* the status_code of the root element, has the set of child elements that  *)
(* are present and val their text.                                          *)
(***************************************************************************)
HttpRequest(resp) == IF resp.io THEN GS_OK ELSE GS_IO_ERROR

XmlStatus(data) == IF data.status = 200 THEN GS_OK ELSE GS_ERROR

XmlSearch(data, name) == IF name \in data.has THEN GS_OK ELSE GS_INVALID

(***************************************************************************)
(* Bounds of the environment.                                               *)
(***************************************************************************)
\* Application ids offered to gs_start_app are 1..MaxAppId.
MaxAppId == 2
\* Server key pairs are 1..NumKeys; key k belongs to certificate k.
NumKeys == 2

\* The application makes at most MaxCalls API calls.
MaxCalls == 3

AppIds == 1..MaxAppId
Keys == 1..NumKeys

(***************************************************************************)
(* serverinfo responses                                                     *)
(***************************************************************************)
\* The elements load_serverinfo looks up, in the order it looks them up.
ParseOrder ==
    <<"currentgame", "PairStatus", "appversion", "state",
      "ServerCodecModeSupport", "gputype", "GsVersion", "hostname",
      "GfeVersion", "HttpsPort", "mac">>

InfoFields == {ParseOrder[k] : k \in 1..Len(ParseOrder)}

\* Texts of the <currentgame> element: idle, a running application, empty.
CurrentGameTexts == {<<"0">>, <<"1">>, <<>>}
\* Texts of <appversion>: generations inside, below and above the band.
SupportedAppVersion == <<"7", ".", "1", ".", "4", "3", "1", ".", "-", "1">>
AppVersionTexts ==
    {SupportedAppVersion,
     <<"2", ".", "0", ".", "0", ".", "0">>,
     <<"8", ".", "0", ".", "0", ".", "0">>}
\* Texts of <HttpsPort>.
HttpsPortTexts == {<<"0">>, <<"4", "4", "3">>}
StateTexts == {"_SERVER_BUSY", "SUNSHINE_SERVER_FREE"}

InfoVal(game, pairStatus, version, state, codec, port) ==
    [currentgame |-> game, PairStatus |-> pairStatus, appversion |-> version,
     state |-> state, ServerCodecModeSupport |-> codec, gputype |-> "gpu",
     GsVersion |-> "gs", hostname |-> "host", GfeVersion |-> "gfe",
     HttpsPort |-> port, mac |-> "mac"]

\* The complete bodies: an unpaired idle server, a paired idle 4K server,
\* a paired server in a game, a busy server that still names a game, an
\* unpaired server in a game, servers outside the version band, a server
\* that reports no HTTPS port and one whose currentgame is empty.
Supported(g, ps, st, c) ==
    InfoVal(g, ps, SupportedAppVersion, st, c, <<"4", "4", "3">>)

InfoVals ==
    {Supported(<<"0">>, "0", "SUNSHINE_SERVER_FREE", 0),
     Supported(<<"0">>, "1", "SUNSHINE_SERVER_FREE", 1),
     Supported(<<"1">>, "1", "SUNSHINE_SERVER_FREE", 0),
     Supported(<<"1">>, "0", "_SERVER_BUSY", 1),
     Supported(<<"1">>, "0", "SUNSHINE_SERVER_FREE", 0),
     Supported(<<>>, "0", "SUNSHINE_SERVER_FREE", 0)}
    \cup {InfoVal(<<"0">>, "0", v, "SUNSHINE_SERVER_FREE", 0, <<"4", "4", "3">>) :
            v \in AppVersionTexts}
    \cup {InfoVal(<<"0">>, "0", SupportedAppVersion, "SUNSHINE_SERVER_FREE", 0, pt) :
            pt \in HttpsPortTexts}

\* The body from which the bodies lacking one element are cut, and the
\* elements that are cut from it: the first one looked up, one after
\* appversion was stored, and two after the codec support was stored.
BaseInfoVal == Supported(<<"1">>, "1", "SUNSHINE_SERVER_FREE", 1)

MissingFields == {"currentgame", "state", "HttpsPort", "mac"}

\* A transport failure (DNS, TCP, TLS handshake, timeout, non-2xx): no body.
TransportFailure ==
    [io |-> FALSE, status |-> 0, has |-> {}, val |-> BaseInfoVal]

ServerInfoResponses ==
    {TransportFailure}
    \cup {[io |-> TRUE, status |-> 200, has |-> InfoFields, val |-> v] :
            v \in InfoVals}
    \cup {[io |-> TRUE, status |-> 200, has |-> InfoFields \ {f},
           val |-> BaseInfoVal] : f \in MissingFields}
    \cup {[io |-> TRUE, status |-> 401, has |-> InfoFields,
           val |-> BaseInfoVal]}

(***************************************************************************)
(* load_serverinfo                                                          *)
(***************************************************************************)
\* xml_search(data, name, &server->field): the elements that are read
\* straight into the descriptor; the others go to locals.
StoreField(srv, name, v) ==
    CASE name = "appversion" -> [srv EXCEPT !.serverInfoAppVersion = v]
      [] name = "ServerCodecModeSupport" ->
            [srv EXCEPT !.serverCodecModeSupport = v]
      [] name = "gputype" -> [srv EXCEPT !.gpuType = v]
      [] name = "GsVersion" -> [srv EXCEPT !.gsVersion = v]
      [] name = "hostname" -> [srv EXCEPT !.hostname = v]
      [] name = "GfeVersion" -> [srv EXCEPT !.serverInfoGfeVersion = v]
      [] name = "mac" -> [srv EXCEPT !.mac = v]
      [] OTHER -> srv

\* The chain of xml_search calls from element k on: stops at the first
\* missing element, keeping what was stored before it.
RECURSIVE ParseFields(_, _, _)
ParseFields(srv, data, k) ==
    IF k > Len(ParseOrder) THEN [ok |-> TRUE, server |-> srv]
    ELSE IF XmlSearch(data, ParseOrder[k]) # GS_OK
         THEN [ok |-> FALSE, server |-> srv]
         ELSE ParseFields(StoreField(srv, ParseOrder[k], data.val[ParseOrder[k]]),
                          data, k + 1)

\* Mutant: the state of the server is not looked at.
ApplyServerInfo_NoBusyReset(srv, v) ==
    LET port == Atoi(v.HttpsPort)
    IN [srv EXCEPT
          !.paired = (v.PairStatus = "1"),
          !.currentGame =
              IF v.currentgame = <<>> THEN 0 ELSE Atoi(v.currentgame),
          !.supports4K = (srv.serverCodecModeSupport # 0),
          !.serverMajorVersion = Atoi(srv.serverInfoAppVersion),
          !.httpsPort = IF port = 0 THEN DefaultHttpsPort ELSE port]

\* The assignments made once every element was found and none of the
\* required texts is empty.
ApplyServerInfo(srv, v) ==
    LET port == Atoi(v.HttpsPort)
    IN [srv EXCEPT
          !.paired = (v.PairStatus = "1"),
          !.currentGame =
              IF v.state = "_SERVER_BUSY" THEN 0
              ELSE IF v.currentgame = <<>> THEN 0 ELSE Atoi(v.currentgame),
          !.supports4K = (srv.serverCodecModeSupport # 0),
          !.serverMajorVersion = Atoi(srv.serverInfoAppVersion),
          !.httpsPort = IF port = 0 THEN DefaultHttpsPort ELSE port]

\* load_serverinfo(server, https) on the response resp: the result code
\* and the descriptor it leaves.
load_serverinfo(srv, resp) ==
    IF HttpRequest(resp) # GS_OK THEN [ret |-> GS_IO_ERROR, server |-> srv]
    ELSE IF XmlStatus(resp) = GS_ERROR THEN [ret |-> GS_ERROR, server |-> srv]
    ELSE LET p == ParseFields(srv, resp, 1)
         IN IF ~p.ok THEN [ret |-> GS_INVALID, server |-> p.server]
            ELSE IF \/ resp.val.currentgame = <<>>
                    \/ resp.val.PairStatus = ""
                    \/ p.server.serverInfoAppVersion = <<>>
                    \/ resp.val.state = ""
                 THEN [ret |-> GS_INVALID, server |-> p.server]
                 ELSE [ret |-> GS_OK,
                       server |-> ApplyServerInfo(p.server, resp.val)]

\* The URL of a request: scheme, port, endpoint, the pairing phrase and the
\* appid parameter (NoAppId when the URL carries none, else {appid}).
NoAppId == {}
Request(scheme, port, path, phrase, appid) ==
    [scheme |-> scheme, port |-> port, path |-> path, phrase |-> phrase,
     appid |-> appid]

ServerInfoRequest(srv, https) ==
    Request(IF https THEN "https" ELSE "http",
            IF https THEN srv.httpsPort ELSE srv.httpPort,
            "serverinfo", "", NoAppId)

(***************************************************************************)
(* State                                                                    *)
(***************************************************************************)
VARIABLES
    server,      \* the SERVER_DATA descriptor
    config,      \* the STREAM_CONFIGURATION handed to gs_start_app
    gs_err,      \* _gs_error, the process-global last-error message
    populated,   \* gs_init has filled in the address and ports of `server`
    pc,          \* "idle", or the http_request the running call is about to make
    op,          \* the API call that is running or that returned last
    result,      \* what the API call that returned last returned; GS_OK
                 \* from the entry of a call to its return
    reqs,        \* the requests issued by the running / last call, in order
    entry,       \* descriptor and configuration when the call was entered
    lss,         \* locals of load_server_status: i, ret, and what it observed
    pair,        \* locals of gs_pair: ret, plainCert, hashLength, accepted stages
    calls,       \* the number of API calls the application has made
    answer,      \* the response to the launch / resume / cancel request of the
                 \* last call, NoAnswer when that call made no such request
    prevLaunch   \* the running / last call is a gs_start_app and the call
                 \* before it was a gs_start_app whose /launch request
                 \* succeeded with a nonzero appId

vars == <<server, config, gs_err, populated, pc, op, result, reqs, entry, lss,
          pair, calls, answer, prevLaunch>>

\* Error messages are sequences of words.
NoError == <<>>
gs_error == IF gs_err = <<>> THEN <<"Unknown", "error...">> ELSE gs_err

Contains(msg, word) == \E k \in 1..Len(msg) : msg[k] = word

\* i and ret are the locals of load_server_status; entryPort is httpsPort on
\* entry, learned whether the port-learning request was made, rets the
\* results of the passes of the loop, okBody the body of the pass that
\* returned GS_OK and last the response to the latest serverinfo request.
NoBody == [none |-> TRUE]
NoAnswer == [none |-> TRUE]
LssIdle ==
    [i |-> 0, ret |-> GS_INVALID, entryPort |-> 0, learned |-> FALSE,
     rets |-> <<>>, okBody |-> NoBody, last |-> NoBody]

\* A block of bytes that holds nothing yet.
NoData == [alg |-> 0, of |-> <<>>]

\* ret, plainCert, hashLength, randomChallenge, serverResponse,
\* serverChallenge, challengeRespEncrypted and serverChallengeRespHash are
\* locals of gs_pair; accepted counts the stages whose response was accepted,
\* cause records why the handshake was abandoned and pairedTexts holds the
\* texts gs_pair_validate found in <paired> in the accepted responses.
PairIdle ==
    [ret |-> GS_OK, plainCert |-> 0, hashLength |-> 0, accepted |-> 0,
     cause |-> "none", randomChallenge |-> 0, serverResponse |-> NoData,
     serverChallenge |-> 0, challengeRespEncrypted |-> NoData,
     serverChallengeRespHash |-> NoData, pairedTexts |-> {}]

\* The fields of a SERVER_DATA that no constructor sets hold indeterminate
\* values until a serverinfo has been parsed; the std::string members start
\* empty.
Init ==
    /\ server \in
         [address : {""}, httpPort : {0}, httpsPort : {0},
          paired : BOOLEAN, supports4K : BOOLEAN,
          currentGame : {0, 1}, serverMajorVersion : {0},
          serverInfoAppVersion : {<<>>}, serverInfoGfeVersion : {""},
          gpuType : {""}, gsVersion : {""}, hostname : {""}, mac : {""},
          serverCodecModeSupport : {0}, rtspSessionUrl : {""}]
    /\ config = [height |-> 1080, remoteInputAesKey |-> 0]
    /\ gs_err = NoError
    /\ populated = FALSE
    /\ pc = "idle"
    /\ op = "none"
    /\ result = GS_OK
    /\ reqs = <<>>
    /\ entry = [server |-> server, config |-> config, appId |-> NoAppId]
    /\ lss = LssIdle
    /\ pair = PairIdle
    /\ calls = 0
    /\ answer = NoAnswer
    /\ prevLaunch = FALSE

\* The call that returned last was a gs_start_app that sent /launch for a
\* nonzero appId and whose http_request returned GS_OK.
Launched ==
    /\ op = "gs_start_app"
    /\ Len(reqs) = 1
    /\ reqs[1].path = "launch"
    /\ reqs[1].appid # {0}
    /\ answer # NoAnswer
    /\ answer.io

\* Entering an API call with configuration cfg and application id appId
\* (NoAppId when the call takes none): the request log restarts and the
\* arguments are remembered.
Enter(name, cfg, appId) ==
    /\ pc = "idle"
    /\ calls < MaxCalls
    /\ calls' = calls + 1
    /\ op' = name
    /\ entry' = [server |-> server, config |-> cfg, appId |-> appId]
    /\ prevLaunch' = (name = "gs_start_app" /\ Launched)

(***************************************************************************)
(* load_server_status                                                       *)
(***************************************************************************)
\* Mutant: the gate has no lower bound.
VersionGate_UpperOnly(srv, ret) ==
    IF ret = GS_OK /\ srv.serverMajorVersion > MAX_SUPPORTED_GFE_VERSION
    THEN [ret |-> GS_UNSUPPORTED_VERSION,
          err |-> <<"Ensure", "you're", "running", "the", "latest", "version",
                    "of", "Moonlight-Switch", "or", "downgrade", "GeForce",
                    "Experience", "and", "try", "again">>,
          set |-> TRUE]
    ELSE [ret |-> ret, err |-> <<>>, set |-> FALSE]

\* The version gate applied to a GS_OK result.
VersionGate(srv, ret) ==
    IF ret = GS_OK /\ srv.serverMajorVersion > MAX_SUPPORTED_GFE_VERSION
    THEN [ret |-> GS_UNSUPPORTED_VERSION,
          err |-> <<"Ensure", "you're", "running", "the", "latest", "version",
                    "of", "Moonlight-Switch", "or", "downgrade", "GeForce",
                    "Experience", "and", "try", "again">>,
          set |-> TRUE]
    ELSE IF ret = GS_OK /\ srv.serverMajorVersion < MIN_SUPPORTED_GFE_VERSION
    THEN [ret |-> GS_UNSUPPORTED_VERSION,
          err |-> <<"Moonlight-Switch", "requires", "a", "newer", "version",
                    "of", "GeForce", "Experience.", "Please", "upgrade",
                    "GFE", "on", "your", "PC", "and", "try", "again.">>,
          set |-> TRUE]
    ELSE [ret |-> ret, err |-> <<>>, set |-> FALSE]

\* The state in which load_server_status is entered on descriptor srv.
LssEntry(srv) ==
    [i |-> 0, ret |-> GS_INVALID, entryPort |-> srv.httpsPort,
     learned |-> FALSE, rets |-> <<>>, okBody |-> NoBody, last |-> NoBody]

\* Mutant: the port-learning request is skipped.
LssEntryPc_SkipLearn(srv) == "lss_attempt"

LssEntryPc(srv) == IF srv.httpsPort = 0 THEN "lss_learn" ELSE "lss_attempt"

\* if (!server->httpsPort) { ret = load_serverinfo(server, false); ... }
LssLearn ==
    /\ pc = "lss_learn"
    /\ \E resp \in ServerInfoResponses :
         LET r == load_serverinfo(server, resp)
         IN /\ reqs' = Append(reqs, ServerInfoRequest(server, FALSE))
            /\ server' = r.server
            /\ lss' = [lss EXCEPT !.learned = TRUE, !.last = resp,
                                  !.ret = IF r.ret # GS_OK THEN r.ret
                                          ELSE GS_INVALID]
            /\ IF r.ret # GS_OK
               THEN /\ pc' = "idle"
                    /\ result' = r.ret
               ELSE /\ pc' = "lss_attempt"
                    /\ UNCHANGED result
    /\ UNCHANGED <<calls, answer, prevLaunch, config, gs_err, populated, op,
                  entry, pair>>

\* Mutant: the loop condition lacks  ret != GS_OK  and always makes both
\* passes.
LssAttempt_BothPasses ==
    /\ pc = "lss_attempt"
    /\ lss.i < 2
    /\ \E resp \in ServerInfoResponses :
         LET https == (lss.i = 0)
             r == load_serverinfo(server, resp)
             i2 == lss.i + 1
             g == VersionGate(r.server, r.ret)
         IN /\ reqs' = Append(reqs, ServerInfoRequest(server, https))
            /\ server' = r.server
            /\ lss' = [lss EXCEPT !.i = i2, !.ret = r.ret, !.last = resp,
                                  !.rets = Append(@, r.ret),
                                  !.okBody = IF r.ret = GS_OK THEN resp.val
                                             ELSE @]
            /\ IF i2 < 2
               THEN /\ pc' = "lss_attempt"
                    /\ UNCHANGED <<result, gs_err>>
               ELSE /\ pc' = "idle"
                    /\ result' = g.ret
                    /\ gs_err' = IF g.set THEN g.err ELSE gs_err
    /\ UNCHANGED <<calls, answer, prevLaunch, config, populated, op, entry,
                  pair>>

\* One pass of  for (i = 0; i < 2 && ret != GS_OK; i++)  and, when the loop
\* ends with it, the version gate and the return.
LssAttempt ==
    /\ pc = "lss_attempt"
    /\ lss.i < 2 /\ lss.ret # GS_OK
    /\ \E resp \in ServerInfoResponses :
         LET https == (lss.i = 0)
             r == load_serverinfo(server, resp)
             i2 == lss.i + 1
             g == VersionGate(r.server, r.ret)
         IN /\ reqs' = Append(reqs, ServerInfoRequest(server, https))
            /\ server' = r.server
            /\ lss' = [lss EXCEPT !.i = i2, !.ret = r.ret, !.last = resp,
                                  !.rets = Append(@, r.ret),
                                  !.okBody = IF r.ret = GS_OK THEN resp.val
                                             ELSE @]
            /\ IF i2 < 2 /\ r.ret # GS_OK
               THEN /\ pc' = "lss_attempt"
                    /\ UNCHANGED <<result, gs_err>>
               ELSE /\ pc' = "idle"
                    /\ result' = g.ret
                    /\ gs_err' = IF g.set THEN g.err ELSE gs_err
    /\ UNCHANGED <<calls, answer, prevLaunch, config, populated, op, entry,
                  pair>>

(***************************************************************************)
(* gs_init                                                                  *)
(***************************************************************************)
\* The address after the split at ':' (seglist): host alone, or host and an
\* explicit port (the one that is also the default).
Addresses == {<<"pc">>, <<"pc", <<"4", "7", "9", "8", "9">>>>}

\* gs_init creates the descriptor: it is called on a descriptor that it has
\* not populated yet (a failed certificate load leaves it so).
gs_init ==
    /\ ~populated
    /\ Enter("gs_init", config, NoAppId)
    /\ reqs' = <<>>
    /\ answer' = NoAnswer
    /\ pair' = PairIdle
    /\ \E seglist \in Addresses, haveCert \in BOOLEAN :
         LET httpPort == IF Len(seglist) > 1 THEN Atoi(seglist[2])
                         ELSE DefaultHttpPort
             srv == [server EXCEPT
                       !.serverCodecModeSupport = 0,
                       !.rtspSessionUrl = "",
                       !.address = seglist[1],
                       !.httpPort = httpPort,
                       !.httpsPort = 0]
         IN IF ~haveCert
            THEN \* load_cert_key_pair and generate_new_cert_key_pair failed
                 /\ result' = GS_FAILED
                 /\ pc' = "idle"
                 /\ lss' = LssIdle
                 /\ UNCHANGED <<server, populated>>
            ELSE /\ server' = srv
                 /\ populated' = TRUE
                 /\ lss' = LssEntry(srv)
                 /\ pc' = LssEntryPc(srv)
                 /\ result' = GS_OK
    /\ UNCHANGED <<config, gs_err>>

(***************************************************************************)
(* Pairing                                                                  *)
(***************************************************************************)
\* A signature names the key that made it and the data it was made over.
\* Certificate k carries the public half of key k.
Secrets == {1, 2}
Signatures == [signer : Keys, signed : Secrets]

\* CryptoManager::verify_signature(data, signature, cert)
VerifySignature(d, sig, cert) == sig.signer = cert /\ sig.signed = d

\* CryptoManager, symbolically: a hash names its algorithm (by the length of
\* its digest) and its input, a ciphertext its key and its plaintext, and
\* the signature of a certificate the certificate.
HashData(alg, d) == [alg |-> alg, of |-> d]

CertSignature(cert) == [signatureOf |-> cert]

CreateAesKey(hashLength) == [saltedPin |-> "pin", sha |-> hashLength]

AesEncrypt(d, key) == [key |-> key, data |-> d]

\* Decrypting with another key than the one used to encrypt yields noise.
AesDecrypt(c, key) == IF c.key = key THEN c.data ELSE <<NoData, 0>>

\* CryptoManager::cert_data(): the client's own certificate.
ClientCert == 0

\* Values of Data::random_bytes(16): randomChallenge and clientSecret, and
\* the 16-byte challenge of the server.
Challenges == {1}

\* Gen 7 servers use SHA256 (32 bytes), older ones SHA1 (20 bytes).
HashLength(srv) == IF srv.serverMajorVersion >= 7 THEN 32 ELSE 20

\* The first hashLength bytes a server puts into its challenge response:
\* the hash an honest gen-7 server with certificate 1 computes, or another.
ServerResponses ==
    {HashData(32, <<1, CertSignature(1), 1>>), HashData(32, <<>>)}

\* The decrypted stage-2 challenge response: the server's response hash
\* followed by its challenge.
ChallengeResponses(key) ==
    {AesEncrypt(<<sr, sc>>, key) : sr \in ServerResponses, sc \in Challenges}

DefaultChallengeResponse == AesEncrypt(<<NoData, 1>>, CreateAesKey(32))

PairFields == {"paired", "plaincert", "challengeresponse", "pairingsecret"}

PairVal(paired, cert, sig) ==
    [paired |-> paired, plaincert |-> cert,
     challengeresponse |-> DefaultChallengeResponse,
     pairingsecret |-> [serverSecret |-> 1, serverSignature |-> sig]]

DefaultSignature == [signer |-> 1, signed |-> 1]

PairTransportFailure ==
    [io |-> FALSE, status |-> 0, has |-> {},
     val |-> PairVal("1", 1, DefaultSignature)]

\* The answers to a stage whose own element is extra ("" when it has none):
\* a transport failure, a non-200 status, and status 200 with or without
\* <paired> and the stage's element.
PairResponses(extra, certs, sigs) ==
    {PairTransportFailure}
    \cup {[io |-> TRUE, status |-> 503, has |-> {"paired"} \cup ({extra} \ {""}),
           val |-> PairVal("1", 1, DefaultSignature)]}
    \cup {[io |-> TRUE, status |-> 200, has |-> h, val |-> PairVal(pv, c, sg)] :
            h \in SUBSET ({"paired"} \cup ({extra} \ {""})),
            pv \in {"0", "1"}, c \in certs, sg \in sigs}

\* The answers to stage 2: those that carry <challengeresponse> carry each
\* of the challenge responses encrypted with key.
Stage2Responses(key) ==
    {[r EXCEPT !.val.challengeresponse = cr] :
        r \in PairResponses("challengeresponse", {1}, {DefaultSignature}),
        cr \in ChallengeResponses(key)}

\* The answers to stage 1 carry the certificate of key 1: which key pair is
\* the server's is immaterial, the signatures of stage 3 range over all.
Stage1Responses == PairResponses("plaincert", {1}, {DefaultSignature})

Stage3Responses == PairResponses("pairingsecret", {1}, Signatures)

\* gs_unpair's and gs_app_boxart's transport outcome.
PlainResponses == {[io |-> TRUE], [io |-> FALSE]}

\* Mutant: every pairing URL is built with the http scheme and port.
PairRequest_AlwaysHttp(srv, https, phrase) ==
    Request("http", srv.httpPort, "pair", phrase, NoAppId)

PairRequest(srv, https, phrase) ==
    Request(IF https THEN "https" ELSE "http",
            IF https THEN srv.httpsPort ELSE srv.httpPort,
            "pair", phrase, NoAppId)

UnpairRequest(srv) == Request("http", srv.httpPort, "unpair", "", NoAppId)

\* The phrases of the five stages, in order.
Phrases ==
    <<"getservercert", "clientchallenge", "serverchallengeresp",
      "clientpairingsecret", "pairchallenge">>

\* Mutant: a <paired> whose text is not "1" fails the validation.
gs_pair_validate_ChecksValue(data) ==
    LET st == BoolToInt(XmlStatus(data) # GS_OK)
    IN IF st # 0 THEN st
       ELSE IF XmlSearch(data, "paired") # GS_OK THEN XmlSearch(data, "paired")
       ELSE IF data.val.paired # "1" THEN GS_FAILED
       ELSE GS_OK

\* gs_pair_validate: note  ret = xml_status(data) != GS_OK  stores the value
\* of the comparison.  The text of <paired> goes to *result and is compared
\* with nothing.
gs_pair_validate(data) ==
    LET st == BoolToInt(XmlStatus(data) # GS_OK)
    IN IF st # 0 THEN st ELSE XmlSearch(data, "paired")

\* The head every stage shares:
\*   if ((ret = http_request(...)) != GS_OK) return cleanup;
\*   if ((ret = gs_pair_validate(data, &result) != GS_OK)) return cleanup;
\* The value of ret after it; GS_OK when the stage goes on.
StageHead(resp) ==
    IF HttpRequest(resp) # GS_OK THEN HttpRequest(resp)
    ELSE BoolToInt(gs_pair_validate(resp) # GS_OK)

\* Mutant: the cleanup treats only negative codes as failures.
CleanupUnpairs_NegativeOnly(ret) == ret < GS_OK

\* gs_pair_cleanup(ret, ...): whether it calls gs_unpair.
CleanupUnpairs(ret) == ret # GS_OK

\* What is wrong with the response to a stage whose own element is extra:
\* the observation the result code is meant to report.
FailureCause(resp, extra) ==
    IF ~resp.io THEN "transport"
    ELSE IF resp.status # 200 THEN "status"
    ELSE IF "paired" \notin resp.has THEN "field"
    ELSE IF extra # "" /\ extra \notin resp.has THEN "field"
    ELSE "none"

\* return gs_pair_cleanup(ret, server, &result): either gs_unpair's request
\* is next, or gs_pair returns ret.
PairReturn(ret, cause) ==
    /\ pair' = [pair EXCEPT !.ret = ret, !.cause = cause]
    /\ IF CleanupUnpairs(ret)
       THEN pc' = "pair_unpair" /\ UNCHANGED result
       ELSE pc' = "idle" /\ result' = ret

PairGoOn(next, locals) ==
    /\ pair' = locals
    /\ pc' = next
    /\ UNCHANGED result

\* Mutant: the check of server->currentGame is missing.
gs_pair_NoGameCheck ==
    /\ populated
    /\ Enter("gs_pair", config, NoAppId)
    /\ reqs' = <<>>
    /\ answer' = NoAnswer
    /\ lss' = LssIdle
    /\ IF server.paired
       THEN /\ gs_err' = <<"Already", "paired">>
            /\ result' = GS_WRONG_STATE
            /\ pc' = "idle"
            /\ pair' = PairIdle
       ELSE /\ pc' = "pair1"
            /\ pair' = PairIdle
            /\ result' = GS_OK
            /\ UNCHANGED gs_err
    /\ UNCHANGED <<server, config, populated>>

gs_pair ==
    /\ populated
    /\ Enter("gs_pair", config, NoAppId)
    /\ reqs' = <<>>
    /\ answer' = NoAnswer
    /\ lss' = LssIdle
    /\ IF server.paired
       THEN /\ gs_err' = <<"Already", "paired">>
            /\ result' = GS_WRONG_STATE
            /\ pc' = "idle"
            /\ pair' = PairIdle
       ELSE IF server.currentGame # 0
       THEN /\ gs_err' = <<"The", "computer", "is", "currently", "in", "a",
                           "game.", "You", "must", "close", "the", "game",
                           "before", "pairing">>
            /\ result' = GS_WRONG_STATE
            /\ pc' = "idle"
            /\ pair' = PairIdle
       ELSE /\ pc' = "pair1"
            /\ pair' = PairIdle
            /\ result' = GS_OK
            /\ UNCHANGED gs_err
    /\ UNCHANGED <<server, config, populated>>

\* Stage 1: getservercert
gs_pair_stage1 ==
    /\ pc = "pair1"
    /\ reqs' = Append(reqs, PairRequest(server, FALSE, Phrases[1]))
    /\ \E resp \in Stage1Responses,
          randomChallenge \in Challenges :
         LET ret == StageHead(resp)
         IN IF ret # GS_OK THEN PairReturn(ret, FailureCause(resp, "plaincert"))
            ELSE IF XmlSearch(resp, "plaincert") # GS_OK
                 THEN PairReturn(XmlSearch(resp, "plaincert"),
                                 FailureCause(resp, "plaincert"))
                 ELSE PairGoOn("pair2",
                        [pair EXCEPT
                           !.plainCert = resp.val.plaincert,
                           !.hashLength = HashLength(server),
                           !.randomChallenge = randomChallenge,
                           !.accepted = 1,
                           !.pairedTexts = {resp.val.paired}])
    /\ UNCHANGED <<calls, answer, prevLaunch, server, config, gs_err,
                  populated, op, entry, lss>>

\* What stage 2 makes of the response resp with the locals p: whether the
\* handshake goes on, the result code and cause when it does not, and the
\* locals.  The decrypted challenge response is split into serverResponse
\* (its first hashLength bytes) and serverChallenge (the next 16), and the
\* payload of stage 3 is the encrypted hash of serverChallenge, the
\* signature of the client's certificate and clientSecret.
Stage2Outcome(p, srv, resp, clientSecret) ==
    LET ret == StageHead(resp)
        aesKey == CreateAesKey(p.hashLength)
        decServerChallengeResp == AesDecrypt(resp.val.challengeresponse, aesKey)
        serverResponse == decServerChallengeResp[1]
        serverChallenge == decServerChallengeResp[2]
        challengeRespHash ==
            HashData(HashLength(srv),
                     <<serverChallenge, CertSignature(ClientCert), clientSecret>>)
    IN IF ret # GS_OK
       THEN [go |-> FALSE, ret |-> ret,
             cause |-> FailureCause(resp, "challengeresponse"), locals |-> p]
       ELSE IF XmlSearch(resp, "challengeresponse") # GS_OK
       THEN [go |-> FALSE, ret |-> GS_INVALID,
             cause |-> FailureCause(resp, "challengeresponse"), locals |-> p]
       ELSE [go |-> TRUE, ret |-> GS_OK, cause |-> "none",
             locals |->
                [p EXCEPT
                   !.accepted = 2,
                   !.pairedTexts = p.pairedTexts \cup {resp.val.paired},
                   !.serverResponse = serverResponse,
                   !.serverChallenge = serverChallenge,
                   !.challengeRespEncrypted =
                      AesEncrypt(challengeRespHash, aesKey)]]

\* Stage 2: clientchallenge
gs_pair_stage2 ==
    /\ pc = "pair2"
    /\ reqs' = Append(reqs, PairRequest(server, FALSE, Phrases[2]))
    /\ \E resp \in Stage2Responses(CreateAesKey(pair.hashLength)),
          clientSecret \in Challenges :
         LET o == Stage2Outcome(pair, server, resp, clientSecret)
         IN IF o.go THEN PairGoOn("pair3", o.locals)
            ELSE PairReturn(o.ret, o.cause)
    /\ UNCHANGED <<calls, answer, prevLaunch, server, config, gs_err,
                  populated, op, entry, lss>>

\* Mutant: the server's signature is not verified.
gs_pair_stage3_NoVerify ==
    /\ pc = "pair3"
    /\ reqs' = Append(reqs, PairRequest(server, FALSE, Phrases[3]))
    /\ \E resp \in PairResponses("pairingsecret", {1}, Signatures) :
         LET ret == StageHead(resp)
             sec == resp.val.pairingsecret
             bad == ~VerifySignature(sec.serverSecret, sec.serverSignature,
                                     pair.plainCert)
         IN IF ret # GS_OK
            THEN PairReturn(ret, FailureCause(resp, "pairingsecret"))
            ELSE IF XmlSearch(resp, "pairingsecret") # GS_OK
                 THEN PairReturn(GS_INVALID,
                                 FailureCause(resp, "pairingsecret"))
                 ELSE PairGoOn("pair4",
                        [pair EXCEPT !.accepted = 3,
                                     !.pairedTexts =
                                        pair.pairedTexts \cup {resp.val.paired},
                                     !.cause = IF bad THEN "signature"
                                               ELSE "none"])
    /\ UNCHANGED <<calls, answer, prevLaunch, server, config, gs_err,
                  populated, op, entry, lss>>

\* Mutant: the hash computed from the server's secret is compared with
\* the serverResponse of stage 2.
Stage3Outcome_HashCompared(p, srv, resp) ==
    LET ret == StageHead(resp)
        sec == resp.val.pairingsecret
        serverChallengeRespHash ==
            HashData(HashLength(srv),
                     <<p.randomChallenge, CertSignature(p.plainCert),
                       sec.serverSecret>>)
    IN IF ret # GS_OK
       THEN [go |-> FALSE, ret |-> ret,
             cause |-> FailureCause(resp, "pairingsecret"), locals |-> p]
       ELSE IF XmlSearch(resp, "pairingsecret") # GS_OK
       THEN [go |-> FALSE, ret |-> GS_INVALID,
             cause |-> FailureCause(resp, "pairingsecret"), locals |-> p]
       ELSE IF \/ ~VerifySignature(sec.serverSecret, sec.serverSignature,
                                   p.plainCert)
               \/ serverChallengeRespHash # p.serverResponse
       THEN [go |-> FALSE, ret |-> GS_FAILED, cause |-> "signature",
             locals |-> p]
       ELSE [go |-> TRUE, ret |-> GS_OK, cause |-> "none",
             locals |->
                [p EXCEPT
                   !.accepted = 3,
                   !.pairedTexts = p.pairedTexts \cup {resp.val.paired},
                   !.serverChallengeRespHash = serverChallengeRespHash]]

\* What stage 3 makes of the response resp with the locals p.  The
\* signature of the server's secret is verified against the certificate of
\* stage 1; serverChallengeRespHash is computed from randomChallenge, the
\* signature of that certificate and the server's secret, and is used for
\* nothing.
Stage3Outcome(p, srv, resp) ==
    LET ret == StageHead(resp)
        sec == resp.val.pairingsecret
        serverChallengeRespHash ==
            HashData(HashLength(srv),
                     <<p.randomChallenge, CertSignature(p.plainCert),
                       sec.serverSecret>>)
    IN IF ret # GS_OK
       THEN [go |-> FALSE, ret |-> ret,
             cause |-> FailureCause(resp, "pairingsecret"), locals |-> p]
       ELSE IF XmlSearch(resp, "pairingsecret") # GS_OK
       THEN [go |-> FALSE, ret |-> GS_INVALID,
             cause |-> FailureCause(resp, "pairingsecret"), locals |-> p]
       ELSE IF ~VerifySignature(sec.serverSecret, sec.serverSignature,
                                p.plainCert)
       THEN [go |-> FALSE, ret |-> GS_FAILED, cause |-> "signature",
             locals |-> p]
       ELSE [go |-> TRUE, ret |-> GS_OK, cause |-> "none",
             locals |->
                [p EXCEPT
                   !.accepted = 3,
                   !.pairedTexts = p.pairedTexts \cup {resp.val.paired},
                   !.serverChallengeRespHash = serverChallengeRespHash]]

\* Stage 3: serverchallengeresp, then the check of the server's signature
gs_pair_stage3 ==
    /\ pc = "pair3"
    /\ reqs' = Append(reqs, PairRequest(server, FALSE, Phrases[3]))
    /\ \E resp \in Stage3Responses :
         LET o == Stage3Outcome(pair, server, resp)
         IN /\ IF o.go THEN PairGoOn("pair4", o.locals)
               ELSE PairReturn(o.ret, o.cause)
            /\ gs_err' = IF o.cause = "signature"
                         THEN <<"MITM", "attack", "detected">>
                         ELSE gs_err
    /\ UNCHANGED <<calls, answer, prevLaunch, server, config, populated, op,
                  entry, lss>>

\* Stage 4: clientpairingsecret
gs_pair_stage4 ==
    /\ pc = "pair4"
    /\ reqs' = Append(reqs, PairRequest(server, FALSE, Phrases[4]))
    /\ \E resp \in PairResponses("", {1}, {DefaultSignature}) :
         LET ret == StageHead(resp)
         IN IF ret # GS_OK THEN PairReturn(ret, FailureCause(resp, ""))
            ELSE PairGoOn("pair5",
                   [pair EXCEPT
                      !.accepted = 4,
                      !.pairedTexts = pair.pairedTexts \cup {resp.val.paired}])
    /\ UNCHANGED <<calls, answer, prevLaunch, server, config, gs_err,
                  populated, op, entry, lss>>

\* Mutant: server->paired is set before the stage-5 response is validated.
gs_pair_stage5_PairedEarly ==
    /\ pc = "pair5"
    /\ reqs' = Append(reqs, PairRequest(server, TRUE, Phrases[5]))
    /\ server' = [server EXCEPT !.paired = TRUE]
    /\ \E resp \in PairResponses("", {1}, {DefaultSignature}) :
         LET ret == StageHead(resp)
         IN IF ret # GS_OK
            THEN PairReturn(ret, FailureCause(resp, ""))
            ELSE /\ pair' = [pair EXCEPT
                               !.ret = ret, !.accepted = 5,
                               !.pairedTexts =
                                  pair.pairedTexts \cup {resp.val.paired}]
                 /\ pc' = "idle"
                 /\ result' = ret
    /\ UNCHANGED <<calls, answer, prevLaunch, config, gs_err, populated, op,
                  entry, lss>>

\* Stage 5: pairchallenge over HTTPS; on success server->paired = true
gs_pair_stage5 ==
    /\ pc = "pair5"
    /\ reqs' = Append(reqs, PairRequest(server, TRUE, Phrases[5]))
    /\ \E resp \in PairResponses("", {1}, {DefaultSignature}) :
         LET ret == StageHead(resp)
         IN IF ret # GS_OK
            THEN PairReturn(ret, FailureCause(resp, "")) /\ UNCHANGED server
            ELSE /\ server' = [server EXCEPT !.paired = TRUE]
                 /\ pair' = [pair EXCEPT
                               !.ret = ret, !.accepted = 5,
                               !.pairedTexts =
                                  pair.pairedTexts \cup {resp.val.paired}]
                 /\ IF CleanupUnpairs(ret)
                    THEN pc' = "pair_unpair" /\ UNCHANGED result
                    ELSE pc' = "idle" /\ result' = ret
    /\ UNCHANGED <<calls, answer, prevLaunch, config, gs_err, populated, op,
                  entry, lss>>

\* gs_unpair called by gs_pair_cleanup: its result is dropped and gs_pair
\* returns ret.
gs_pair_cleanup ==
    /\ pc = "pair_unpair"
    /\ reqs' = Append(reqs, UnpairRequest(server))
    /\ \E resp \in PlainResponses :
         /\ result' = pair.ret
         /\ pc' = "idle"
    /\ UNCHANGED <<calls, answer, prevLaunch, server, config, gs_err,
                  populated, op, entry, lss, pair>>

\* Mutant: gs_unpair resets the stored message.
gs_unpair_ClearsError ==
    /\ populated
    /\ Enter("gs_unpair", config, NoAppId)
    /\ reqs' = <<UnpairRequest(server)>>
    /\ \E resp \in PlainResponses : result' = HttpRequest(resp)
    /\ lss' = LssIdle
    /\ pair' = PairIdle
    /\ answer' = NoAnswer
    /\ gs_err' = NoError
    /\ UNCHANGED <<server, config, populated, pc>>

\* gs_unpair called by the application.
gs_unpair ==
    /\ populated
    /\ Enter("gs_unpair", config, NoAppId)
    /\ reqs' = <<UnpairRequest(server)>>
    /\ \E resp \in PlainResponses : result' = HttpRequest(resp)
    /\ lss' = LssIdle
    /\ pair' = PairIdle
    /\ answer' = NoAnswer
    /\ UNCHANGED <<server, config, gs_err, populated, pc>>

(***************************************************************************)
(* Application list and box art                                             *)
(***************************************************************************)
\* applistOk: whether xml_applist can parse the body.
ApplistResponses ==
    {[io |-> FALSE, status |-> 0, applistOk |-> FALSE]}
    \cup [io : {TRUE}, status : {200, 503}, applistOk : BOOLEAN]

gs_applist ==
    /\ populated
    /\ Enter("gs_applist", config, NoAppId)
    /\ reqs' = <<Request("https", server.httpsPort, "applist", "", NoAppId)>>
    /\ \E resp \in ApplistResponses :
         result' = IF HttpRequest(resp) # GS_OK THEN GS_IO_ERROR
                   ELSE IF XmlStatus(resp) = GS_ERROR THEN GS_ERROR
                   ELSE IF ~resp.applistOk THEN GS_INVALID
                   ELSE GS_OK
    /\ lss' = LssIdle
    /\ pair' = PairIdle
    /\ answer' = NoAnswer
    /\ UNCHANGED <<server, config, gs_err, populated, pc>>

gs_app_boxart ==
    /\ populated
    /\ \E app_id \in AppIds :
         /\ Enter("gs_app_boxart", config, {app_id})
         /\ reqs' = <<Request("https", server.httpsPort, "appasset", "",
                              {app_id})>>
    /\ \E resp \in PlainResponses :
         result' = IF HttpRequest(resp) # GS_OK THEN GS_IO_ERROR ELSE GS_OK
    /\ lss' = LssIdle
    /\ pair' = PairIdle
    /\ answer' = NoAnswer
    /\ UNCHANGED <<server, config, gs_err, populated, pc>>

(***************************************************************************)
(* Launching, resuming and quitting                                         *)
(***************************************************************************)
Heights == {1080, 2160}
\* Values of Data::random_bytes(16) for the remote input key.
RandKeys == {1}
SessionUrls == {"rtsp://a", "rtsp://b"}

\* The appId argument of gs_start_app: any int, 0 included.
StartAppIds == 0..MaxAppId

\* The text of an element that is absent is immaterial: it is fixed.  The
\* session URLs vary in the responses that describe a session.
LaunchResponses ==
    {[io |-> FALSE, status |-> 0, has |-> {},
      val |-> [gamesession |-> "0", sessionUrl0 |-> "rtsp://a"]],
     [io |-> TRUE, status |-> 503, has |-> {"gamesession", "sessionUrl0"},
      val |-> [gamesession |-> "1", sessionUrl0 |-> "rtsp://a"]]}
    \cup {r \in [io : {TRUE}, status : {200},
                  has : SUBSET {"gamesession", "sessionUrl0"},
                  val : [gamesession : {"0", "1"}, sessionUrl0 : SessionUrls]] :
            /\ "gamesession" \notin r.has => r.val.gamesession = "0"
            /\ "sessionUrl0" \notin r.has => r.val.sessionUrl0 = "rtsp://a"
            /\ r.val.gamesession = "0" => r.val.sessionUrl0 = "rtsp://a"}

CancelResponses ==
    {[io |-> FALSE, status |-> 0, has |-> {}, val |-> [cancel |-> "0"]],
     [io |-> TRUE, status |-> 503, has |-> {"cancel"}, val |-> [cancel |-> "1"]],
     [io |-> TRUE, status |-> 200, has |-> {}, val |-> [cancel |-> "0"]]}
    \cup [io : {TRUE}, status : {200}, has : {{"cancel"}},
          val : [cancel : {"0", "1"}]]

\* Mutant: /launch is sent whatever server->currentGame is.
StartRequest_AlwaysLaunch(srv, appId) ==
    Request("https", srv.httpsPort, "launch", "", {appId})

\* The URL gs_start_app builds: /launch with appid when no game is running,
\* /resume otherwise.
StartRequest(srv, appId) ==
    IF srv.currentGame = 0
    THEN Request("https", srv.httpsPort, "launch", "", {appId})
    ELSE Request("https", srv.httpsPort, "resume", "", NoAppId)

\* Mutant: sessionUrl0 is copied before gamesession is compared with "0".
SessionOutcome_UrlBeforeSession(srv, resp) ==
    LET s2 == IF XmlSearch(resp, "sessionUrl0") = GS_OK
              THEN [srv EXCEPT !.rtspSessionUrl = resp.val.sessionUrl0]
              ELSE srv
        st == BoolToInt(XmlStatus(resp) # GS_OK)
    IN IF st # 0 THEN [ret |-> st, server |-> srv]
       ELSE IF XmlSearch(resp, "gamesession") # GS_OK
            THEN [ret |-> XmlSearch(resp, "gamesession"), server |-> srv]
       ELSE IF resp.val.gamesession = "0"
            THEN [ret |-> GS_FAILED, server |-> s2]
       ELSE [ret |-> GS_OK, server |-> s2]

\* gs_start_app once its http_request returned GS_OK and currentGame was
\* set: the checks of the response, the copy of sessionUrl0, the result code.
SessionOutcome(srv, resp) ==
    LET st == BoolToInt(XmlStatus(resp) # GS_OK)
    IN IF st # 0 THEN [ret |-> st, server |-> srv]
       ELSE IF XmlSearch(resp, "gamesession") # GS_OK
            THEN [ret |-> XmlSearch(resp, "gamesession"), server |-> srv]
       ELSE IF resp.val.gamesession = "0"
            THEN [ret |-> GS_FAILED, server |-> srv]
       ELSE IF XmlSearch(resp, "sessionUrl0") = GS_OK
            THEN [ret |-> GS_OK,
                  server |-> [srv EXCEPT
                                !.rtspSessionUrl = resp.val.sessionUrl0]]
            ELSE [ret |-> GS_OK, server |-> srv]

\* Mutant: server->currentGame is set only once the response was validated.
StartOutcome_SetAfterValidation(srv, appId, resp) ==
    IF HttpRequest(resp) # GS_OK
    THEN [ret |-> HttpRequest(resp), server |-> srv]
    ELSE LET o == SessionOutcome(srv, resp)
         IN IF o.ret # GS_OK THEN o
            ELSE [o EXCEPT !.server.currentGame = appId]

\* gs_start_app after the request went out: the result code and the
\* descriptor.
StartOutcome(srv, appId, resp) ==
    IF HttpRequest(resp) # GS_OK
    THEN [ret |-> HttpRequest(resp), server |-> srv]
    ELSE SessionOutcome([srv EXCEPT !.currentGame = appId], resp)

\* Mutant: the remote input key is written before the 4K check.
gs_start_app_KeyFirst ==
    /\ populated
    /\ \E height \in Heights, appId \in StartAppIds, rand \in RandKeys :
         LET cfg == [config EXCEPT !.height = height]
         IN /\ Enter("gs_start_app", cfg, {appId})
            /\ config' = [cfg EXCEPT !.remoteInputAesKey = rand]
            /\ IF cfg.height >= 2160 /\ ~server.supports4K
               THEN /\ gs_err' = <<"4K", "not", "supported">>
                    /\ result' = GS_NOT_SUPPORTED_4K
                    /\ reqs' = <<>>
                    /\ answer' = NoAnswer
                    /\ UNCHANGED server
               ELSE \E resp \in LaunchResponses :
                      LET o == StartOutcome(server, appId, resp)
                      IN /\ reqs' = <<StartRequest(server, appId)>>
                         /\ answer' = resp
                         /\ server' = o.server
                         /\ result' = o.ret
                         /\ UNCHANGED gs_err
    /\ lss' = LssIdle
    /\ pair' = PairIdle
    /\ UNCHANGED <<populated, pc>>

gs_start_app ==
    /\ populated
    /\ \E height \in Heights, appId \in StartAppIds, rand \in RandKeys :
         LET cfg == [config EXCEPT !.height = height]
         IN /\ Enter("gs_start_app", cfg, {appId})
            /\ IF cfg.height >= 2160 /\ ~server.supports4K
               THEN /\ gs_err' = <<"4K", "not", "supported">>
                    /\ result' = GS_NOT_SUPPORTED_4K
                    /\ config' = cfg
                    /\ reqs' = <<>>
                    /\ answer' = NoAnswer
                    /\ UNCHANGED server
               ELSE \E resp \in LaunchResponses :
                      LET o == StartOutcome(server, appId, resp)
                      IN /\ config' = [cfg EXCEPT !.remoteInputAesKey = rand]
                         /\ reqs' = <<StartRequest(server, appId)>>
                         /\ answer' = resp
                         /\ server' = o.server
                         /\ result' = o.ret
                         /\ UNCHANGED gs_err
    /\ lss' = LssIdle
    /\ pair' = PairIdle
    /\ UNCHANGED <<populated, pc>>

\* gs_quit_app's result code.
QuitOutcome(resp) ==
    IF HttpRequest(resp) # GS_OK THEN HttpRequest(resp)
    ELSE LET st == BoolToInt(XmlStatus(resp) # GS_OK)
         IN IF st # 0 THEN st
            ELSE IF XmlSearch(resp, "cancel") # GS_OK
                 THEN XmlSearch(resp, "cancel")
            ELSE IF resp.val.cancel = "0" THEN GS_FAILED
            ELSE GS_OK

\* Mutant: a successful gs_quit_app clears server->currentGame.
gs_quit_app_ClearsGame ==
    /\ populated
    /\ Enter("gs_quit_app", config, NoAppId)
    /\ reqs' = <<Request("https", server.httpsPort, "cancel", "", NoAppId)>>
    /\ \E resp \in CancelResponses :
         /\ answer' = resp
         /\ result' = QuitOutcome(resp)
         /\ server' = IF QuitOutcome(resp) = GS_OK
                      THEN [server EXCEPT !.currentGame = 0]
                      ELSE server
    /\ lss' = LssIdle
    /\ pair' = PairIdle
    /\ UNCHANGED <<config, gs_err, populated, pc>>

\* gs_quit_app: one /cancel request; the descriptor is only read.
gs_quit_app ==
    /\ populated
    /\ Enter("gs_quit_app", config, NoAppId)
    /\ reqs' = <<Request("https", server.httpsPort, "cancel", "", NoAppId)>>
    /\ \E resp \in CancelResponses :
         /\ answer' = resp
         /\ result' = QuitOutcome(resp)
    /\ lss' = LssIdle
    /\ pair' = PairIdle
    /\ UNCHANGED <<server, config, gs_err, populated, pc>>

(***************************************************************************)
(* Specifications                                                           *)
(***************************************************************************)
Next ==
    \/ gs_init
    \/ LssLearn
    \/ LssAttempt
    \/ gs_pair
    \/ gs_pair_stage1
    \/ gs_pair_stage2
    \/ gs_pair_stage3
    \/ gs_pair_stage4
    \/ gs_pair_stage5
    \/ gs_pair_cleanup
    \/ gs_unpair
    \/ gs_applist
    \/ gs_app_boxart
    \/ gs_start_app
    \/ gs_quit_app

Spec == Init /\ [][Next]_vars

TypeOK ==
    /\ pc \in {"idle", "lss_learn", "lss_attempt", "pair1", "pair2", "pair3",
               "pair4", "pair5", "pair_unpair"}
    /\ server.paired \in BOOLEAN
    /\ server.currentGame \in {0} \cup AppIds
    /\ prevLaunch \in BOOLEAN

(***************************************************************************)
(* Properties of gs_pair                                                    *)
(***************************************************************************)
\* gs_pair has returned from a call that passed its precondition checks.
PairReturned ==
    /\ pc = "idle"
    /\ op = "gs_pair"
    /\ ~entry.server.paired
    /\ entry.server.currentGame = 0

\* gs_pair is running or has returned.
InPair == op = "gs_pair"

\* The positions in the request log of the requests to an endpoint.
RequestsTo(path) == {k \in 1..Len(reqs) : reqs[k].path = path}

\* C1: for every gs_pair call that passes its preconditions, on return
\* server.paired is true if and only if gs_pair returned GS_OK; when all
\* five stages were accepted it returned GS_OK with paired true, and on
\* every failing path paired is still false.
C1_PairedIffOk ==
    PairReturned =>
        /\ server.paired <=> (result = GS_OK)
        /\ pair.accepted = 5 => (result = GS_OK /\ server.paired)
        /\ pair.cause # "none" => (result # GS_OK /\ ~server.paired)

C1_Witness ==
    /\ PairReturned
    /\ pair.accepted = 5
    /\ result = GS_OK
    /\ server.paired

\* C2: when gs_pair fails after its precondition checks exactly one /unpair
\* request is issued before it returns, after the request of the failing
\* stage; while the stages run and when gs_pair succeeds there is none.
C2_UnpairOnFailure ==
    /\ (InPair /\ pc \in {"pair1", "pair2", "pair3", "pair4", "pair5",
                          "pair_unpair"})
          => RequestsTo("unpair") = {}
    /\ (PairReturned /\ result # GS_OK)
          => /\ RequestsTo("unpair") = {Len(reqs)}
             /\ Len(reqs) >= 2
             /\ reqs[Len(reqs) - 1].path = "pair"
             /\ reqs[Len(reqs) - 1].phrase = Phrases[pair.accepted + 1]
    /\ (PairReturned /\ result = GS_OK) => RequestsTo("unpair") = {}

C2_Witness ==
    /\ PairReturned
    /\ pair.cause = "transport"
    /\ pair.accepted = 2
    /\ RequestsTo("unpair") = {4}

\* The result code the error taxonomy assigns to each cause of failure.
OriginalError(cause) ==
    CASE cause = "transport" -> GS_IO_ERROR
      [] cause = "status" -> GS_ERROR
      [] cause = "field" -> GS_INVALID
      [] cause = "signature" -> GS_FAILED

\* C3: when a stage of gs_pair fails, gs_pair returns the original error of
\* the failing step: GS_IO_ERROR for a transport failure, GS_ERROR for a
\* non-200 status_code, GS_INVALID for a missing required field, GS_FAILED
\* for the signature check, whatever the cleanup /unpair request does.
C3_OriginalErrorReturned ==
    (PairReturned /\ pair.cause # "none") => result = OriginalError(pair.cause)

\* C4: gs_pair called with server.paired = true, or with paired = false and
\* currentGame # 0, returns GS_WRONG_STATE, issues no HTTP request at all
\* and leaves the server descriptor unchanged.
C4_WrongState ==
    (pc = "idle" /\ op = "gs_pair"
       /\ (entry.server.paired \/ entry.server.currentGame # 0))
    => /\ result = GS_WRONG_STATE
       /\ reqs = <<>>
       /\ server = entry.server

C4_Witness ==
    /\ pc = "idle"
    /\ op = "gs_pair"
    /\ ~entry.server.paired
    /\ entry.server.currentGame # 0
    /\ result = GS_WRONG_STATE
    /\ Contains(gs_error, "game")

\* C5: if the signature in the stage-3 pairingsecret does not verify against
\* the certificate obtained in stage 1, gs_pair returns GS_FAILED, gs_error()
\* contains "MITM", the stage-4 and stage-5 requests are never sent, exactly
\* one /unpair request is observed and server.paired stays false.
C5_Mitm ==
    (InPair /\ pair.cause = "signature") =>
        /\ Contains(gs_error, "MITM")
        /\ \A k \in 1..Len(reqs) :
              reqs[k].phrase \notin {Phrases[4], Phrases[5]}
        /\ ~server.paired
        /\ pc \in {"pair_unpair", "idle"}
        /\ pc = "idle" =>
              /\ result = GS_FAILED
              /\ Cardinality(RequestsTo("unpair")) = 1

C5_Witness ==
    /\ PairReturned
    /\ pair.cause = "signature"
    /\ pair.accepted = 2
    /\ result = GS_FAILED
    /\ Len(reqs) = 4

\* C6: within one gs_pair call the pairing requests are issued strictly in
\* the order getservercert, clientchallenge, serverchallengeresp,
\* clientpairingsecret, pairchallenge; stage k+1 is sent only after the
\* response of stage k was accepted, no stage is sent twice or skipped,
\* stages 1 to 4 go over HTTP and stage 5 over HTTPS; a successful pair
\* consists of exactly five requests, exactly one of them HTTPS.
C6_StageOrder ==
    InPair =>
        LET n == Cardinality(RequestsTo("pair"))
        IN /\ n <= 5
           /\ RequestsTo("pair") = 1..n
           /\ \A k \in 1..n :
                 /\ reqs[k].phrase = Phrases[k]
                 /\ reqs[k].scheme = IF k = 5 THEN "https" ELSE "http"
           /\ n >= 1 => pair.accepted >= n - 1
           /\ pair.accepted <= n
           /\ (pc = "idle" /\ result = GS_OK /\ n > 0) =>
                 /\ Len(reqs) = 5
                 /\ n = 5
                 /\ {k \in 1..5 : reqs[k].scheme = "https"} = {5}

C6_Witness ==
    /\ PairReturned
    /\ result = GS_OK
    /\ Len(reqs) = 5
    /\ reqs[5].scheme = "https"
    /\ reqs[5].phrase = "pairchallenge"
    /\ reqs[1].phrase = "getservercert"

(***************************************************************************)
(* Properties of load_server_status                                         *)
(***************************************************************************)
\* load_server_status has returned to gs_init after at least one pass of
\* its loop.
LssReturned == pc = "idle" /\ op = "gs_init" /\ Len(lss.rets) >= 1

\* The descriptor holds what the serverinfo body v says.
Reflects(srv, v) ==
    /\ srv.paired = (v.PairStatus = "1")
    /\ srv.currentGame =
          (IF v.state = "_SERVER_BUSY" THEN 0 ELSE Atoi(v.currentgame))
    /\ srv.serverCodecModeSupport = v.ServerCodecModeSupport
    /\ srv.supports4K = (v.ServerCodecModeSupport # 0)
    /\ srv.serverInfoAppVersion = v.appversion
    /\ srv.serverMajorVersion = Atoi(v.appversion)
    /\ srv.httpsPort =
          (IF Atoi(v.HttpsPort) = 0 THEN DefaultHttpsPort
           ELSE Atoi(v.HttpsPort))

InBand(major) ==
    major >= MIN_SUPPORTED_GFE_VERSION /\ major <= MAX_SUPPORTED_GFE_VERSION

\* The first pass (HTTPS) returned GS_OK: no fallback, the descriptor is the
\* HTTPS body.
HttpsAccepted ==
    (LssReturned /\ lss.rets[1] = GS_OK) =>
        /\ Len(lss.rets) = 1
        /\ reqs[Len(reqs)].scheme = "https"
        /\ Cardinality({k \in 1..Len(reqs) : reqs[k].scheme = "https"}) = 1
        /\ Reflects(server, lss.okBody)

\* Both passes failed: the result is the error of the second (HTTP) pass.
BothFailed ==
    (LssReturned /\ Len(lss.rets) = 2 /\ lss.rets[2] # GS_OK) =>
        /\ lss.rets[1] # GS_OK
        /\ result = lss.rets[2]

\* The HTTPS pass failed and the HTTP pass returned a valid body.
HttpFallbackTaken ==
    LssReturned /\ Len(lss.rets) = 2 /\ lss.rets[1] # GS_OK
        /\ lss.rets[2] = GS_OK

\* C7 as stated: load_server_status accepts the first of its two attempts
\* that returns GS_OK; when HTTPS fails and HTTP returns a valid body the
\* result is GS_OK and server.paired equals (PairStatus = "1") of the HTTP
\* body; when both fail the result is the error of the HTTP attempt.
C7_FallbackReturnsOk ==
    /\ HttpsAccepted
    /\ BothFailed
    /\ HttpFallbackTaken =>
          /\ result = GS_OK
          /\ server.paired = (lss.okBody.PairStatus = "1")

\* C7 amended: as above, except that after the HTTP fallback returned a
\* valid body the result is GS_OK only when the major version of that body
\* lies in the supported band, and GS_UNSUPPORTED_VERSION otherwise; in both
\* cases server.paired equals (PairStatus = "1") of the HTTP body.
C7_FallbackThenVersionGate ==
    /\ HttpsAccepted
    /\ BothFailed
    /\ HttpFallbackTaken =>
          /\ result = IF InBand(Atoi(lss.okBody.appversion)) THEN GS_OK
                      ELSE GS_UNSUPPORTED_VERSION
          /\ server.paired = (lss.okBody.PairStatus = "1")
          /\ reqs[Len(reqs)].scheme = "http"

C7_Witness ==
    /\ HttpFallbackTaken
    /\ lss.rets[1] = GS_IO_ERROR
    /\ lss.okBody.PairStatus = "1"
    /\ result = GS_OK
    /\ server.paired

\* C8: one call of load_server_status performs at most three exchanges, in
\* the order: an HTTP serverinfo request made only when httpsPort = 0 on
\* entry, one HTTPS request, at most one HTTP fallback; when the
\* port-learning request fails it returns that failure after exactly one
\* exchange without an HTTPS attempt; no exchange is retried.
C8_ExchangeOrder ==
    (op = "gs_init" /\ populated) =>
        LET expected == IF lss.entryPort = 0 THEN <<"http", "https", "http">>
                        ELSE <<"https", "http">>
        IN /\ Len(reqs) <= Len(expected)
           /\ Len(reqs) <= 3
           /\ \A k \in 1..Len(reqs) :
                 /\ reqs[k].scheme = expected[k]
                 /\ reqs[k].path = "serverinfo"
           /\ lss.learned <=> (lss.entryPort = 0 /\ Len(reqs) >= 1)
           /\ Len(reqs) = (IF lss.learned THEN 1 ELSE 0) + Len(lss.rets)
           /\ pc = "lss_attempt" => server.httpsPort # 0
           /\ (pc = "idle" /\ lss.learned /\ Len(reqs) = 1) =>
                 /\ result = lss.ret
                 /\ result # GS_OK
           /\ (pc = "idle" /\ Len(lss.rets) = 1) => lss.rets[1] = GS_OK

C8_Witness ==
    /\ pc = "idle"
    /\ op = "gs_init"
    /\ lss.entryPort = 0
    /\ Len(reqs) = 3
    /\ lss.rets = <<GS_IO_ERROR, GS_OK>>

(***************************************************************************)
(* HTTPS port                                                               *)
(***************************************************************************)
\* C9: in every reachable state, after any sequence of gs_init, gs_pair,
\* gs_applist, gs_app_boxart, gs_start_app and gs_quit_app calls, no HTTPS
\* request is issued while server.httpsPort = 0.
C9_NoHttpsOnPortZero ==
    \A k \in 1..Len(reqs) : reqs[k].scheme = "https" => reqs[k].port # 0

(***************************************************************************)
(* Properties of gs_start_app                                               *)
(***************************************************************************)
\* C10: gs_start_app called with config.height >= 2160 while
\* server.supports4K = false returns GS_NOT_SUPPORTED_4K without issuing any
\* HTTP request and leaves server.currentGame, server.rtspSessionUrl and
\* config.remoteInputAesKey unchanged.
C10_No4K ==
    (pc = "idle" /\ op = "gs_start_app" /\ entry.config.height >= 2160
       /\ ~entry.server.supports4K)
    => /\ result = GS_NOT_SUPPORTED_4K
       /\ reqs = <<>>
       /\ server.currentGame = entry.server.currentGame
       /\ server.rtspSessionUrl = entry.server.rtspSessionUrl
       /\ config.remoteInputAesKey = entry.config.remoteInputAesKey

C10_Witness ==
    /\ pc = "idle"
    /\ op = "gs_start_app"
    /\ entry.config.height = 2160
    /\ ~entry.server.supports4K
    /\ result = GS_NOT_SUPPORTED_4K
    /\ reqs = <<>>

(***************************************************************************)
(* Launching and resuming                                                   *)
(***************************************************************************)
\* gs_start_app has returned.
StartReturned == pc = "idle" /\ op = "gs_start_app"

\* gs_start_app has returned from a call that passed the 4K check.
StartSent ==
    /\ StartReturned
    /\ ~(entry.config.height >= 2160 /\ ~entry.server.supports4K)

\* C11: gs_start_app issues /launch, carrying appid, exactly when
\* server.currentGame = 0 on entry and /resume, without appid, exactly when
\* server.currentGame # 0; so the gs_start_app that immediately follows a
\* gs_start_app whose /launch request succeeded with a nonzero appId issues
\* /resume and never a second /launch.
C11_LaunchOrResume ==
    StartSent =>
        /\ Len(reqs) = 1
        /\ reqs[1].path \in {"launch", "resume"}
        /\ (reqs[1].path = "launch") <=> (entry.server.currentGame = 0)
        /\ (reqs[1].path = "resume") <=> (entry.server.currentGame # 0)
        /\ reqs[1].path = "launch" =>
              /\ Cardinality(reqs[1].appid) = 1
              /\ answer.io => reqs[1].appid = {server.currentGame}
        /\ reqs[1].path = "resume" => reqs[1].appid = NoAppId
        /\ prevLaunch =>
              /\ reqs[1].path = "resume"
              /\ entry.server.currentGame # 0

C11_Witness ==
    /\ StartSent
    /\ prevLaunch
    /\ reqs[1].path = "resume"
    /\ reqs[1].appid = NoAppId

\* C12: in gs_start_app server.currentGame is set to appId as soon as the
\* launch / resume http_request returns GS_OK, before the XML is looked at:
\* it equals appId on return when the status is not 200, when gamesession
\* is missing and when gamesession is "0", as well as on success; when the
\* request fails at transport level server.currentGame is unchanged.
C12_CurrentGameBeforeValidation ==
    StartSent =>
        /\ answer.io => entry.appId = {server.currentGame}
        /\ ~answer.io =>
              /\ server.currentGame = entry.server.currentGame
              /\ result = GS_IO_ERROR

C12_Witness ==
    /\ StartSent
    /\ answer.io
    /\ answer.status = 200
    /\ "gamesession" \notin answer.has
    /\ result = GS_INVALID
    /\ entry.server.currentGame = 0
    /\ entry.appId = {2}
    /\ server.currentGame = 2

(***************************************************************************)
(* The version gate                                                         *)
(***************************************************************************)
\* load_server_status obtained a serverinfo: the last pass of its loop
\* returned GS_OK.
ServerInfoObtained == LssReturned /\ lss.rets[Len(lss.rets)] = GS_OK

\* C13: when load_server_status obtains a serverinfo successfully and the
\* parsed major version is above MAX_SUPPORTED_GFE_VERSION or below
\* MIN_SUPPORTED_GFE_VERSION it returns GS_UNSUPPORTED_VERSION, which gs_init
\* returns, and a last-error message is set; for a major version inside the
\* band it returns GS_OK.
C13_VersionGate ==
    ServerInfoObtained =>
        /\ server.serverMajorVersion = Atoi(lss.okBody.appversion)
        /\ InBand(server.serverMajorVersion) => result = GS_OK
        /\ ~InBand(server.serverMajorVersion) =>
              /\ result = GS_UNSUPPORTED_VERSION
              /\ gs_err # NoError
              /\ gs_error = gs_err
        /\ server.serverMajorVersion > MAX_SUPPORTED_GFE_VERSION =>
              Contains(gs_error, "downgrade")
        /\ server.serverMajorVersion < MIN_SUPPORTED_GFE_VERSION =>
              Contains(gs_error, "upgrade")

C13_Witness ==
    /\ ServerInfoObtained
    /\ server.serverMajorVersion = MAX_SUPPORTED_GFE_VERSION + 1
    /\ result = GS_UNSUPPORTED_VERSION
    /\ Contains(gs_error, "downgrade")

(***************************************************************************)
(* Result codes of gs_start_app and gs_quit_app                             *)
(***************************************************************************)
\* gs_quit_app has returned.
QuitReturned == pc = "idle" /\ op = "gs_quit_app"

\* C14: when the http_request succeeds but the response carries a
\* status_code other than 200, gs_start_app and gs_quit_app return GS_ERROR,
\* and every value they return is one of the codes of the error taxonomy.
C14_StatusIsGsError ==
    (StartSent \/ QuitReturned) =>
        /\ (answer.io /\ answer.status # 200) => result = GS_ERROR
        /\ result \in TaxonomyCodes

(***************************************************************************)
(* The last-error message                                                   *)
(***************************************************************************)
\* What gs_error() returns in each state, and the message that the calls
\* which report one have just set.
ErrorReported ==
    /\ gs_err = NoError => gs_error = <<"Unknown", "error...">>
    /\ gs_err # NoError => gs_error = gs_err
    /\ (StartReturned /\ result = GS_NOT_SUPPORTED_4K) =>
          gs_error = <<"4K", "not", "supported">>
    /\ (pc = "idle" /\ op = "gs_pair" /\ entry.server.paired) =>
          gs_error = <<"Already", "paired">>
    /\ (pc = "idle" /\ op = "gs_init" /\ result = GS_UNSUPPORTED_VERSION) =>
          gs_error = VersionGate(server, GS_OK).err

\* A step changes the stored message only where the code calls
\* gs_set_error, and then to the argument of that call.
ErrorChangedOnlyBySet ==
    gs_err' # gs_err =>
        \/ /\ pc = "idle" /\ op' = "gs_pair" /\ result' = GS_WRONG_STATE
           /\ gs_err' = IF server.paired THEN <<"Already", "paired">>
                        ELSE <<"The", "computer", "is", "currently", "in", "a",
                               "game.", "You", "must", "close", "the", "game",
                               "before", "pairing">>
        \/ /\ pc = "pair3" /\ pair'.cause = "signature"
           /\ gs_err' = <<"MITM", "attack", "detected">>
        \/ /\ pc = "lss_attempt" /\ pc' = "idle"
           /\ result' = GS_UNSUPPORTED_VERSION
           /\ gs_err' = VersionGate(server', GS_OK).err
        \/ /\ pc = "idle" /\ op' = "gs_start_app"
           /\ result' = GS_NOT_SUPPORTED_4K
           /\ gs_err' = <<"4K", "not", "supported">>

Loaded == populated /\ (op # "gs_init" \/ reqs # <<>>)

\* C16: in every reachable state of a descriptor that has been through at
\* least one load_serverinfo call, whether the call succeeded or failed
\* part-way through parsing,
\* server.supports4K = (server.serverInfo.serverCodecModeSupport # 0).
C16_Supports4KDerived ==
    Loaded => server.supports4K = (server.serverCodecModeSupport # 0)

\* A serverinfo was parsed successfully and a later one, naming another
\* codec support, failed after the codec support was stored.
StaleSupports4K ==
    /\ op = "gs_init"
    /\ lss.learned
    /\ Len(lss.rets) >= 1
    /\ lss.rets[1] = GS_INVALID
    /\ server.serverCodecModeSupport # 0
    /\ ~server.supports4K

OtherwiseValid(resp) ==
    /\ resp.io
    /\ resp.status = 200
    /\ InfoFields \ {"HttpsPort"} \subseteq resp.has
    /\ resp.val.currentgame # <<>>
    /\ resp.val.PairStatus # ""
    /\ resp.val.appversion # <<>>
    /\ resp.val.state # ""

\* load_serverinfo has just handled a response of that kind.
PortCase == op = "gs_init" /\ populated /\ reqs # <<>> /\ OtherwiseValid(lss.last)

\* C18: when a serverinfo response is otherwise valid and its HttpsPort
\* element is absent or has the value zero, load_serverinfo succeeds with
\* server.httpsPort = 47984; when HttpsPort carries a nonzero number,
\* server.httpsPort equals that number.
C18_HttpsPortDefault ==
    PortCase =>
        LET absent == "HttpsPort" \notin lss.last.has
            port == Atoi(lss.last.val.HttpsPort)
        IN /\ lss.ret \in {GS_OK, GS_INVALID}
           /\ (absent \/ port = 0) =>
                 /\ Len(lss.rets) >= 1 => lss.rets[Len(lss.rets)] = GS_OK
                 /\ server.httpsPort = DefaultHttpsPort
           /\ (~absent /\ port # 0) => server.httpsPort = port

\* What the code does with a response that carries an HttpsPort element.
HttpsPortPresent ==
    (PortCase /\ "HttpsPort" \in lss.last.has) =>
        /\ Len(lss.rets) >= 1 => lss.rets[Len(lss.rets)] = GS_OK
        /\ server.httpsPort =
              IF Atoi(lss.last.val.HttpsPort) = 0 THEN DefaultHttpsPort
              ELSE Atoi(lss.last.val.HttpsPort)

\* What it does with one that lacks the element.
HttpsPortAbsent ==
    (PortCase /\ "HttpsPort" \notin lss.last.has) =>
        /\ lss.ret = GS_INVALID
        /\ Len(reqs) = 1 => server.httpsPort = 0

(***************************************************************************)
(* The session of gs_start_app                                              *)
(***************************************************************************)
\* C19: after the launch / resume request of gs_start_app succeeded with
\* status 200, a missing gamesession yields GS_INVALID, gamesession "0"
\* yields GS_FAILED and otherwise the call returns GS_OK whether or not
\* sessionUrl0 is present; server.rtspSessionUrl is overwritten with
\* sessionUrl0 only on that GS_OK path and only when sessionUrl0 is present,
\* and is unchanged on every failing path.
C19_SessionOutcome ==
    /\ (StartSent /\ answer.io /\ answer.status = 200) =>
          /\ "gamesession" \notin answer.has => result = GS_INVALID
          /\ ("gamesession" \in answer.has /\ answer.val.gamesession = "0") =>
                result = GS_FAILED
          /\ ("gamesession" \in answer.has /\ answer.val.gamesession # "0") =>
                /\ result = GS_OK
                /\ server.rtspSessionUrl =
                      IF "sessionUrl0" \in answer.has
                      THEN answer.val.sessionUrl0
                      ELSE entry.server.rtspSessionUrl
    /\ (StartReturned /\ result # GS_OK) =>
          server.rtspSessionUrl = entry.server.rtspSessionUrl

C19_Witness ==
    /\ StartSent
    /\ result = GS_OK
    /\ "sessionUrl0" \in answer.has
    /\ entry.server.rtspSessionUrl = "rtsp://a"
    /\ server.rtspSessionUrl = "rtsp://b"

(***************************************************************************)
(* The serverResponse of stage 2                                            *)
(***************************************************************************)
\* An outcome of a stage with the serverResponse local left out.
WithoutServerResponse(o) == [o EXCEPT !.locals.serverResponse = NoData]

\* The stage-2 response resp with another serverResponse part.
WithServerResponse(resp, sr) ==
    [resp EXCEPT !.val.challengeresponse.data[1] = sr]

\* C20: the outcome of gs_pair does not depend on the serverResponse part
\* of the decrypted stage-2 challenge response.  Two stage-2 responses that
\* differ only in that part lead to the same decision, result code and
\* locals other than serverResponse itself, the payload of the stage-3
\* request included; stage 3 decides the same whatever serverResponse
\* holds; the stages after it, the cleanup and the return read none of it.
\* The locally computed serverChallengeRespHash is never compared with it.
C20_ServerResponseUnused ==
    /\ (InPair /\ pc = "pair2") =>
          \A resp \in Stage2Responses(CreateAesKey(pair.hashLength)),
             sr \in ServerResponses, clientSecret \in Challenges :
                WithoutServerResponse(
                    Stage2Outcome(pair, server, resp, clientSecret))
                = WithoutServerResponse(
                    Stage2Outcome(pair, server, WithServerResponse(resp, sr),
                                  clientSecret))
    /\ (InPair /\ pc = "pair3") =>
          \A resp \in Stage3Responses, sr \in ServerResponses :
                WithoutServerResponse(Stage3Outcome(pair, server, resp))
                = WithoutServerResponse(
                    Stage3Outcome([pair EXCEPT !.serverResponse = sr],
                                  server, resp))

\* gs_pair succeeded although the serverResponse it received is not the
\* hash it computed.
C20_Witness ==
    /\ PairReturned
    /\ result = GS_OK
    /\ server.paired
    /\ pair.serverResponse \in ServerResponses
    /\ pair.serverChallengeRespHash # NoData
    /\ pair.serverResponse # pair.serverChallengeRespHash

\* gs_pair succeeded with a serverResponse that is the hash it computed.
HonestServerResponse ==
    /\ PairReturned
    /\ result = GS_OK
    /\ pair.serverResponse = pair.serverChallengeRespHash

\* C21: gs_pair looks at the presence of <paired> in a stage's response and
\* never at its text.  When no response of the handshake had a defect (each
\* arrived with status 200 and its required elements, and the server's
\* signature verified), gs_pair has accepted all five stages, returned GS_OK
\* and set server.paired, when every response said paired = "0" exactly as
\* when every response said paired = "1".
C21_PairedValueIgnored ==
    \A text \in {"0", "1"} :
        (PairReturned /\ pair.cause = "none" /\ pair.pairedTexts \subseteq {text})
            => /\ pair.accepted = 5
               /\ pair.pairedTexts = {text}
               /\ result = GS_OK
               /\ server.paired

\* All five stages answered paired = "0" and gs_pair succeeded.
C21_Witness ==
    /\ PairReturned
    /\ Len(reqs) = 5
    /\ pair.accepted = 5
    /\ pair.pairedTexts = {"0"}
    /\ result = GS_OK
    /\ server.paired

\* All five stages answered paired = "1" and gs_pair succeeded.
PairedWithOnes ==
    /\ PairReturned
    /\ pair.accepted = 5
    /\ pair.pairedTexts = {"1"}
    /\ result = GS_OK
    /\ server.paired

\* gs_pair succeeded on responses that disagree on the text of <paired>.
PairedWithBoth ==
    /\ PairReturned
    /\ pair.pairedTexts = {"0", "1"}
    /\ result = GS_OK
    /\ server.paired

\* gs_unpair called by the application has returned.
UnpairReturned == pc = "idle" /\ op = "gs_unpair"

\* What gs_quit_app and gs_unpair leave behind: the descriptor they were
\* entered with.
DescriptorUntouched ==
    /\ (QuitReturned \/ UnpairReturned) => server = entry.server
    /\ (pc = "idle" /\ RequestsTo("unpair") # {}) => server = entry.server
    /\ (QuitReturned /\ result = GS_OK /\ entry.server.currentGame # 0)
          => /\ server.currentGame = entry.server.currentGame
             /\ \A appId \in StartAppIds :
                   StartRequest(server, appId).path = "resume"
    /\ (UnpairReturned /\ result = GS_OK /\ entry.server.paired)
          => server.paired

\* A gs_start_app that follows a successful gs_quit_app on a server that
\* was running a game, and that sends a request, sends /resume.
ResumeAfterQuit ==
    (/\ QuitReturned
     /\ result = GS_OK
     /\ server.currentGame # 0
     /\ op' = "gs_start_app"
     /\ reqs' # <<>>)
        => reqs'[1].path = "resume"

\* C22: gs_quit_app and gs_unpair leave every field of the server
\* descriptor as it was on entry, whatever they return; so does a gs_pair
\* whose cleanup called gs_unpair.  After a successful gs_quit_app
\* server.currentGame keeps its nonzero value and the gs_start_app that
\* follows it sends /resume, not /launch; after a successful gs_unpair on a
\* paired server server.paired is still true.
C22_DescriptorUntouched == []DescriptorUntouched /\ [][ResumeAfterQuit]_vars

\* gs_quit_app succeeded on a server that was running a game.
C22_Witness ==
    /\ QuitReturned
    /\ result = GS_OK
    /\ Len(reqs) = 1
    /\ reqs[1].path = "cancel"
    /\ entry.server.currentGame # 0
    /\ server.currentGame # 0

\* gs_unpair succeeded on a paired server.
UnpairedStillPaired ==
    /\ UnpairReturned
    /\ result = GS_OK
    /\ reqs = <<UnpairRequest(server)>>
    /\ server.paired

====
